---------------------------- MODULE Spec2Model ----------------------------
(***************************************************************************)
(* A model of pixivmanager's persistence layer (src/pixivmanager/models.py) *)
(* and of the command line's wait for the download queue                    *)
(* (src/pixivmanager/cli.py).                                               *)
(*                                                                          *)
(* Python values are modelled as follows.  An optional value is a sequence  *)
(* of length at most one: <<>> is None (or an absent JSON key, which        *)
(* dict.get turns into None) and <<v>> is the value v.  A table is the      *)
(* sequence of its rows in insertion order, so that a duplicated row is     *)
(* representable.  A float rounded to five decimals is the integer number   *)
(* of 1/100000 units it holds.                                              *)
(***************************************************************************)
EXTENDS Integers, Sequences, FiniteSets, TLC

VARIABLES
    session,      \* the tables as the one ingesting Session sees them
    tags_cache,   \* the cache dict a traversal run passes to from_json
    clock,        \* datetime.now, in ticks
    last,         \* the last operation applied and what it returned
    first_calls,  \* the works_ids given to create_if_not_exist, in the
                  \* order of their first calls
    db,           \* two writers: the committed tags and works_local rows
    writers,      \* two writers: each Session's transaction and position
    caches,       \* two writers: the default tags_cache dict of from_json,
                  \* and the dict each run passes explicitly
    dq,           \* downloads: the queue pdl.dq, its items and its count of
                  \* unfinished tasks
    unfinished_tasks,  \* downloads: the counter pdl.unfinished_tasks
    jobs,         \* downloads: the state of every download job
    threads,      \* downloads: where main and every worker thread are
    store,        \* web server: the rows persisted in the database
    helper,       \* web server: the Session of DatabaseHelper.get_session and
                  \* where its context is
    ws_clients,   \* web server: the list App.ws_clients
    handlers      \* web server: where every websocket_handler call is

ingest_vars == <<session, tags_cache, clock, last, first_calls>>

race_vars == <<db, writers, caches>>

drain_vars == <<dq, unfinished_tasks, jobs, threads>>

web_vars == <<store, helper, ws_clients, handlers>>

vars == <<session, tags_cache, clock, last, first_calls, db, writers, caches,
          dq, unfinished_tasks, jobs, threads,
          store, helper, ws_clients, handlers>>

-----------------------------------------------------------------------------
(* Bounds of the model *)

MaxWorks == 1
MaxTagList == 2
MaxLocalWorks == 4
MaxFrames == 2
MaxClock == 1
MaxJobs == 2
MaxTries == 2
MaxEdits == 2
MaxClients == 2

-----------------------------------------------------------------------------
(* Optional values and Python truthiness *)

None == <<>>

Some(v) == <<v>>

IsNone(x) == x = <<>>

\* bool(x) for an optional integer: None and 0 are falsy
TruthyInt(x) == x # <<>> /\ x[1] # 0

\* bool(x) for an optional string: None and "" are falsy
TruthyStr(x) == x # <<>> /\ x[1] # ""

RECURSIVE SeqMax(_)
SeqMax(s) == IF s = <<>> THEN 0
             ELSE LET m == SeqMax(Tail(s)) IN IF Head(s) > m THEN Head(s) ELSE m

\* the rows of a table that satisfy a filter, in table order
Filter(rows, Test(_)) == SelectSeq(rows, Test)

\* Query.one_or_none(): the single matching row, or None.  The unique keys of
\* the tables make a second match impossible (NoDuplicateTagRows and
\* ExactlyOneLocalRow check that they hold).
OneOrNone(rows) == IF rows = <<>> THEN None ELSE Some(rows[1])

Indices(s) == 1..Len(s)

-----------------------------------------------------------------------------
(* The tables of models.py as one Session sees them *)

EmptySession ==
    [ works            |-> <<>>,   \* Works rows
      works_local      |-> <<>>,   \* WorksLocal rows, local_id None while pending
      tags             |-> <<>>,   \* Tag rows
      tags_translation |-> <<>>,   \* TagTranslation rows
      works_tags       |-> <<>>,   \* works_tags_table rows
      works_image_urls |-> <<>>,   \* WorksImageURLs rows
      works_captions   |-> <<>>,   \* WorksCaption rows
      ugoiras          |-> <<>> ]  \* Ugoira rows, with the instance's _delay

\* An autoincrement primary key: one more than the largest key of the table.
NextId(ids) == SeqMax(ids) + 1

RECURSIVE AssignLocalIds(_, _)
AssignLocalIds(rows, done) ==
    IF rows = <<>> THEN done
    ELSE LET row == Head(rows)
             ids == [i \in Indices(done) |-> done[i].local_id[1]]
             new == IF row.local_id = None
                    THEN [row EXCEPT !.local_id = Some(NextId(ids))]
                    ELSE row
         IN AssignLocalIds(Tail(rows), Append(done, new))

\* Session.flush(), which every Session.query() runs first (autoflush): the
\* pending rows are INSERTed in the order they were added.  The INSERT gives
\* a WorksLocal row its local_id and a Works row its insert_date default.
Autoflush(st, now) ==
    [st EXCEPT
        !.works = [i \in Indices(st.works) |->
                     IF st.works[i].insert_date = None
                     THEN [st.works[i] EXCEPT !.insert_date = Some(now)]
                     ELSE st.works[i]],
        !.works_local = AssignLocalIds(st.works_local, <<>>)]

-----------------------------------------------------------------------------
(* Tag and TagTranslation *)

\* session.query(Tag).filter(Tag.tag_text == t_name).one_or_none()
QueryTag(st, t_name) ==
    LET Match(row) == row.tag_text = t_name
    IN OneOrNone(Filter(st.tags, Match))

\* t = cls(tag_text=t_name); session.add(t); session.flush()
AddTagMutant(st, t_name, now) ==
    [st EXCEPT !.tags = Append(@, [tag_id |-> None, tag_text |-> t_name])]

AddTag(st, t_name, now) ==
    LET flushed == Autoflush(st, now)
        ids == [i \in Indices(flushed.tags) |-> flushed.tags[i].tag_id[1]]
    IN [flushed EXCEPT
           !.tags = Append(@, [tag_id |-> Some(NextId(ids)), tag_text |-> t_name])]

\* t.translation: the TagTranslation rows of Tag t
Translation(st, tag_id) ==
    LET Match(row) == row.tag_id = tag_id
    IN Filter(st.tags_translation, Match)

\* The translation merge of from_tags_json: every translation of t in this
\* language gets the new text; if there was none, one row is appended.
MergeTranslationMutant(st, tag_id, language, t_translate) ==
    [st EXCEPT !.tags_translation =
        Append(@, [tag_id |-> tag_id, language |-> language,
                   translation_text |-> t_translate])]

MergeTranslation(st, tag_id, language, t_translate) ==
    LET _translate_set ==
            \E i \in Indices(st.tags_translation) :
                /\ st.tags_translation[i].tag_id = tag_id
                /\ st.tags_translation[i].language = language
        overwritten ==
            [i \in Indices(st.tags_translation) |->
                IF /\ st.tags_translation[i].tag_id = tag_id
                   /\ st.tags_translation[i].language = language
                THEN [st.tags_translation[i] EXCEPT !.translation_text = t_translate]
                ELSE st.tags_translation[i]]
    IN IF _translate_set
       THEN [st EXCEPT !.tags_translation = overwritten]
       ELSE [st EXCEPT !.tags_translation =
                Append(@, [tag_id |-> tag_id, language |-> language,
                           translation_text |-> t_translate])]

\* cache.get(t_name)
CacheGet(cache, t_name) ==
    IF t_name \in DOMAIN cache THEN Some(cache[t_name]) ELSE None

\* cache[t_name] = t
CachePut(cache, t_name, t) ==
    [n \in DOMAIN cache \cup {t_name} |-> IF n = t_name THEN t ELSE cache[n]]

\* Whether from_tags_json skips an entry of the tag list.
SkipTagMutant(seen, t_name) == FALSE

SkipTag(seen, t_name) == t_name \in seen

\* One pass of the loop of from_tags_json over the entry _t.  A Tag object
\* is named by its tag_id, which the flush in AddTag has set.
TagLoopBody(acc, _t, language, now) ==
    LET t_name == _t.name
        t_translate == _t.translated_name
    IN IF SkipTag(acc._tags, t_name) THEN acc
       ELSE
        LET cached == CacheGet(acc.cache, t_name)
            queried == IF cached # None THEN acc.st ELSE Autoflush(acc.st, now)
            found == IF cached # None THEN None ELSE QueryTag(queried, t_name)
            created == cached = None /\ found = None
            added == IF created THEN AddTag(queried, t_name, now) ELSE queried
            t == IF cached # None THEN cached[1]
                 ELSE IF found # None THEN found[1].tag_id
                 ELSE added.tags[Len(added.tags)].tag_id
            merged == IF TruthyStr(t_translate)
                      THEN MergeTranslation(added, t, language, t_translate[1])
                      ELSE added
        IN [ st    |-> merged,
             cache |-> CachePut(acc.cache, t_name, t),
             _tags |-> acc._tags \cup {t_name},
             r     |-> Append(acc.r, t) ]

RECURSIVE TagLoop(_, _, _, _)
TagLoop(acc, tags, language, now) ==
    IF tags = <<>> THEN acc
    ELSE TagLoop(TagLoopBody(acc, Head(tags), language, now), Tail(tags),
                 language, now)

\* Tag.from_tags_json(session, tags, language, cache): the session and the
\* cache after the call, and the list r it returns
Tag_from_tags_json(st, tags, language, cache, now) ==
    LET out == TagLoop([st |-> st, cache |-> cache, _tags |-> {}, r |-> <<>>],
                       tags, language, now)
    IN [st |-> out.st, cache |-> out.cache, r |-> out.r]

-----------------------------------------------------------------------------
(* WorksCaption, WorksImageURLs, Ugoira *)

\* The rows of a table that belong to one work
OfWork(rows, works_id) ==
    LET Match(row) == row.works_id = works_id
    IN Filter(rows, Match)

\* WorksCaption.get_by_id(session, works_id) followed by
\* _caption.caption_text = j['caption'].  A row that exists is changed in
\* place; a new object is not in the session yet (save_to_session=False) and
\* is returned in "made" until from_json attaches it to the work.
CaptionOf(st, j, now) ==
    LET queried == Autoflush(st, now)
        o == OneOrNone(OfWork(queried.works_captions, j.id))
    IN IF o = None
       THEN [st |-> queried,
             made |-> Some([works_id |-> j.id, caption_text |-> j.caption[1]])]
       ELSE [st |-> [queried EXCEPT !.works_captions =
                        [i \in Indices(@) |->
                            IF @[i].works_id = j.id
                            THEN [@[i] EXCEPT !.caption_text = j.caption[1]]
                            ELSE @[i]]],
             made |-> None]

\* WorksImageURLs.get_by_id(session, works_id, page) and the four
\* assignments that follow it in from_works_json: the row (works_id, page)
\* gets the urls, in place when it exists.  "r" collects the pages returned,
\* "made" the objects that are new and not in the session.
ImageRow(acc, works_id, page, urls, now) ==
    LET queried == Autoflush(acc.st, now)
        Match(row) == row.works_id = works_id /\ row.page = page
        o == OneOrNone(Filter(queried.works_image_urls, Match))
        row == [works_id |-> works_id, page |-> page,
                square_medium |-> urls.square_medium, medium |-> urls.medium,
                large |-> urls.large, original |-> urls.original]
    IN IF o = None
       THEN [st |-> queried, r |-> Append(acc.r, page),
             made |-> Append(acc.made, row)]
       ELSE [st |-> [queried EXCEPT !.works_image_urls =
                        [i \in Indices(@) |-> IF Match(@[i]) THEN row ELSE @[i]]],
             r |-> Append(acc.r, page), made |-> acc.made]

RECURSIVE MetaPagesLoop(_, _, _, _, _)
MetaPagesLoop(acc, works_id, meta_pages, page, now) ==
    IF page >= Len(meta_pages) THEN acc
    ELSE MetaPagesLoop(
            ImageRow(acc, works_id, page, meta_pages[page + 1].image_urls, now),
            works_id, meta_pages, page + 1, now)

\* WorksImageURLs.from_works_json(session, works_json_info)
WorksImageURLs_from_works_json(st, j, now) ==
    LET start == [st |-> st, r |-> <<>>, made |-> <<>>]
    IN IF j.page_count > 1 /\ j.meta_pages # <<>>
       THEN MetaPagesLoop(start, j.id, j.meta_pages, 0, now)
       ELSE IF j.page_count = 1 /\ j.meta_single_page # None
       THEN ImageRow(start, j.id, 0,
                     [square_medium |-> j.image_urls.square_medium,
                      medium |-> j.image_urls.medium,
                      large |-> j.image_urls.large,
                      original |-> j.meta_single_page[1].original_image_url],
                     now)
       ELSE start

-----------------------------------------------------------------------------
(* Ugoira: the frame delays and their text.  A text is the sequence of its  *)
(* characters.                                                              *)

DigitChars == <<"0", "1", "2", "3", "4", "5", "6", "7", "8", "9">>

IsDigit(c) == \E d \in 1..10 : DigitChars[d] = c

DigitValue(c) == (CHOOSE d \in 1..10 : DigitChars[d] = c) - 1

RECURSIVE NatToStr(_)
NatToStr(n) == IF n < 10 THEN <<DigitChars[n + 1]>>
               ELSE NatToStr(n \div 10) \o <<DigitChars[(n % 10) + 1]>>

\* str(n) for an int
Str(n) == IF n < 0 THEN <<"-">> \o NatToStr(-n) ELSE NatToStr(n)

\* sep.join(texts)
RECURSIVE Join(_, _)
Join(sep, texts) ==
    IF texts = <<>> THEN <<>>
    ELSE IF Len(texts) = 1 THEN texts[1]
    ELSE texts[1] \o sep \o Join(sep, Tail(texts))

\* text.split(): the maximal runs of characters that are not whitespace
RECURSIVE SplitFrom(_, _, _)
SplitFrom(text, word, words) ==
    IF text = <<>>
    THEN IF word = <<>> THEN words ELSE Append(words, word)
    ELSE IF Head(text) = " "
    THEN SplitFrom(Tail(text), <<>>,
                   IF word = <<>> THEN words ELSE Append(words, word))
    ELSE SplitFrom(Tail(text), Append(word, Head(text)), words)

Split(text) == SplitFrom(text, <<>>, <<>>)

RECURSIVE DigitsToNat(_, _)
DigitsToNat(digits, n) ==
    IF digits = <<>> THEN n
    ELSE DigitsToNat(Tail(digits), 10 * n + DigitValue(Head(digits)))

\* int(word) for a word that str made
Int_(word) == IF Head(word) = "-" THEN 0 - DigitsToNat(Tail(word), 0)
              ELSE DigitsToNat(word, 0)

\* ' '.join(map(str, _delay))
EncodeDelayMutant(_delay) ==
    Join(<<>>, [i \in Indices(_delay) |-> Str(_delay[i])])

EncodeDelay(_delay) ==
    Join(<<" ">>, [i \in Indices(_delay) |-> Str(_delay[i])])

\* list(map(int, self.delay_text.split()))
DecodeDelay(delay_text) ==
    LET words == Split(delay_text)
    IN [i \in Indices(words) |-> Int_(words[i])]

\* The property Ugoira.delay: the value it returns, and the _delay the
\* instance holds afterwards
Ugoira_delay(ug) ==
    LET memo == IF ug._delay = <<>> THEN DecodeDelay(ug.delay_text)
                ELSE ug._delay
    IN [value |-> memo, ug |-> [ug EXCEPT !._delay = memo]]

\* dict_setattr(obj, d): setattr(obj, k, v) for every item of d
dict_setattrMutant(obj, d) ==
    [k \in DOMAIN obj |-> IF k \in DOMAIN d THEN d[k] ELSE None]

dict_setattr(obj, d) ==
    [k \in DOMAIN obj |-> IF k \in DOMAIN d THEN d[k] ELSE obj[k]]

\* Ugoira.from_json(session, works_id, ugoira_json): an existing row takes
\* every key of kv (dict_setattr); a new object is returned in "made".
Ugoira_from_json(st, works_id, ugoira_json, now) ==
    LET _delay == ugoira_json.frames
        kv == [works_id |-> works_id,
               zip_url |-> ugoira_json.zip_url,
               delay_text |-> EncodeDelay(_delay),
               _delay |-> _delay]
        queried == Autoflush(st, now)
        ug == OneOrNone(OfWork(queried.ugoiras, works_id))
    IN IF ug = None
       THEN [st |-> queried, made |-> Some(kv)]
       ELSE [st |-> [queried EXCEPT !.ugoiras =
                        [i \in Indices(@) |->
                            IF @[i].works_id = works_id
                            THEN dict_setattr(@[i], kv) ELSE @[i]]],
             made |-> None]

-----------------------------------------------------------------------------
(* Works *)

\* The number of 1/100000 units in a value rounded to 5 decimal places
RateUnit == 100000

\* round(total_bookmarks / total_view, 5) in RateUnit units.  The quotient
\* is never half way between two units when total_view < 64, so the rounding
\* mode of round() plays no part for the counts of this model.
Round5(total_bookmarks, total_view) ==
    (2 * total_bookmarks * RateUnit + total_view) \div (2 * total_view)

\* The condition under which from_json computes _bookmark_rate
RateComputed(j) == TruthyInt(j.total_bookmarks) /\ TruthyInt(j.total_view)

\* helpers.iso_to_datetime followed by IntegerTimestamp.process_bind_param:
\* the seconds since the epoch of an ISO 8601 text
iso_to_datetime(text) ==
    CASE text = "2019-01-01T00:00:00+00:00" -> 1546300800
      [] text = "2019-01-02T00:00:00+00:00" -> 1546387200

\* w.tags = _tags: the association rows of the work become those of _tags;
\* rows of tags that stay are kept, the others deleted, the new ones added.
SetTags(rows, works_id, _tags) ==
    LET Listed(tag_id) == \E i \in Indices(_tags) : _tags[i] = tag_id
        Keep(row) == row.works_id # works_id \/ Listed(row.tag_id)
        kept == Filter(rows, Keep)
        Has(tag_id) == \E i \in Indices(kept) :
                          kept[i].works_id = works_id /\ kept[i].tag_id = tag_id
        New(tag_id) == ~Has(tag_id)
        added == Filter(_tags, New)
    IN kept \o [i \in Indices(added) |->
                   [works_id |-> works_id, tag_id |-> added[i]]]

\* w.image_urls = _image_urls: the pages of the list stay, the new objects
\* are inserted, and a row of the work that is no longer in the list is
\* deleted (cascade delete-orphan).
SetImageUrls(rows, works_id, r, made) ==
    LET Listed(page) == \E i \in Indices(r) : r[i] = page
        Keep(row) == row.works_id # works_id \/ Listed(row.page)
    IN Filter(rows, Keep) \o made

\* The scalar entries of the dict kv that from_json builds from the item
KV(j) ==
    [ works_id        |-> j.id,
      author_id       |-> j.user.id,
      works_type      |-> j.type,
      title           |-> j.title,
      page_count      |-> Some(j.page_count),
      total_views     |-> j.total_view,
      total_bookmarks |-> j.total_bookmarks,
      is_bookmarked   |-> j.is_bookmarked,
      bookmark_rate   |-> IF RateComputed(j)
                          THEN Some(Round5(j.total_bookmarks[1], j.total_view[1]))
                          ELSE None,
      create_date     |-> IF TruthyStr(j.create_date)
                          THEN Some(iso_to_datetime(j.create_date[1]))
                          ELSE None ]

\* session.query(cls).filter(cls.works_id == kv['works_id']).one_or_none()
QueryWorksMutant(st, works_id) == None

QueryWorks(st, works_id) == OneOrNone(OfWork(st.works, works_id))

\* Works.from_json runs in five steps, each on what the step before left:
\* the Session (st), the cache, and the values it has put in kv for the
\* relationships (caption, tags, image_urls, ugoira; an object that is new
\* and not in the session is in caption, image_made or ugoira).

\* if json_info.get('caption'): _caption = WorksCaption.get_by_id(...)
FromJsonCaption(st, j, cache, now) ==
    LET c == IF TruthyStr(j.caption) THEN CaptionOf(st, j, now)
             ELSE [st |-> st, made |-> None]
    IN [ st |-> c.st, cache |-> cache, caption |-> c.made, tags |-> <<>>,
         image_urls |-> <<>>, image_made |-> <<>>, ugoira |-> None ]

\* if json_info.get('tags'): _tags = Tag.from_tags_json(...)
FromJsonTags(p, j, language, now) ==
    LET t == IF j.tags # <<>>
             THEN Tag_from_tags_json(p.st, j.tags, language, p.cache, now)
             ELSE [st |-> p.st, cache |-> p.cache, r |-> <<>>]
    IN [p EXCEPT !.st = t.st, !.cache = t.cache, !.tags = t.r]

\* _image_urls = WorksImageURLs.from_works_json(session, json_info)
FromJsonImageUrls(p, j, now) ==
    LET im == WorksImageURLs_from_works_json(p.st, j, now)
    IN [p EXCEPT !.st = im.st, !.image_urls = im.r, !.image_made = im.made]

\* if ugoira_json: kv['ugoira'] = Ugoira.from_json(...)
FromJsonUgoira(p, j, ugoira_json, now) ==
    LET ug == IF ugoira_json # None
              THEN Ugoira_from_json(p.st, j.id, ugoira_json[1], now)
              ELSE [st |-> p.st, made |-> None]
    IN [p EXCEPT !.st = ug.st, !.ugoira = ug.made]

\* w = session.query(cls)...one_or_none(); then cls(**kv) and session.add,
\* or dict_setattr(w, kv).  The relationship keys are in kv only when their
\* values are truthy.
FromJsonStore(p, j, now) ==
    LET kv == KV(j)
        queried == Autoflush(p.st, now)
        w == QueryWorks(queried, kv.works_id)
        \* w = cls(**kv); session.add(w): is_downloaded has no default, and
        \* insert_date gets its default when the row is INSERTed
        fresh == [ works_id        |-> kv.works_id,
                   author_id       |-> kv.author_id,
                   works_type      |-> kv.works_type,
                   title           |-> kv.title,
                   page_count      |-> kv.page_count,
                   total_views     |-> kv.total_views,
                   total_bookmarks |-> kv.total_bookmarks,
                   is_bookmarked   |-> kv.is_bookmarked,
                   is_downloaded   |-> None,
                   bookmark_rate   |-> kv.bookmark_rate,
                   create_date     |-> kv.create_date,
                   insert_date     |-> None ]
        works == IF w = None THEN Append(queried.works, fresh)
                 ELSE [i \in Indices(queried.works) |->
                          IF queried.works[i].works_id = kv.works_id
                          THEN dict_setattr(queried.works[i], kv)
                          ELSE queried.works[i]]
    IN [ st |-> [queried EXCEPT
                    !.works = works,
                    !.works_captions =
                        IF p.caption # None THEN Append(@, p.caption[1]) ELSE @,
                    !.works_tags =
                        IF p.tags # <<>> THEN SetTags(@, j.id, p.tags) ELSE @,
                    !.works_image_urls =
                        IF p.image_urls # <<>>
                        THEN SetImageUrls(@, j.id, p.image_urls, p.image_made)
                        ELSE @,
                    !.ugoiras =
                        IF p.ugoira # None THEN Append(@, p.ugoira[1]) ELSE @],
         cache |-> p.cache,
         w |-> j.id ]

\* Works.from_json(session, json_info, language, ugoira_json, tags_cache)
Works_from_json(st, j, language, ugoira_json, cache, now) ==
    FromJsonStore(
        FromJsonUgoira(
            FromJsonImageUrls(
                FromJsonTags(FromJsonCaption(st, j, cache, now), j, language, now),
                j, now),
            j, ugoira_json, now),
        j, now)

-----------------------------------------------------------------------------
(* WorksLocal *)

\* WorksLocal.create_if_not_exist(session, works_id)
CreateAlwaysMutant(st, works_id, now) ==
    LET queried == Autoflush(st, now)
    IN [queried EXCEPT !.works_local =
           Append(@, [local_id |-> None, works_id |-> works_id])]

WorksLocal_create_if_not_exist(st, works_id, now) ==
    LET queried == Autoflush(st, now)
        w == OneOrNone(OfWork(queried.works_local, works_id))
    IN IF w = None
       THEN [queried EXCEPT !.works_local =
                Append(@, [local_id |-> None, works_id |-> works_id])]
       ELSE queried

-----------------------------------------------------------------------------
(* The inputs: work items as the remote API returns them *)

WorkIds == 1..MaxWorks

Languages == {"en", "ja"}

\* config.cfg['pixiv']['language']: the one language of a traversal run
RunLanguage == "ja"

Urls(tag) == [square_medium |-> tag \o "-sq", medium |-> tag \o "-m",
              large |-> tag \o "-l", original |-> tag \o "-o"]

TagCat == [name |-> "cat", translated_name |-> Some("neko")]
TagCat2 == [name |-> "cat", translated_name |-> Some("chat")]
TagDog == [name |-> "dog", translated_name |-> None]

\* A single-page illustration with every field present
ItemFull(id) ==
    [ id |-> id, user |-> [id |-> 100], type |-> Some("illust"),
      title |-> Some("A"), page_count |-> 1,
      total_view |-> Some(3), total_bookmarks |-> Some(1),
      is_bookmarked |-> Some(TRUE),
      create_date |-> Some("2019-01-01T00:00:00+00:00"),
      caption |-> Some("c1"), tags |-> <<TagCat, TagDog, TagCat2>>,
      meta_pages |-> <<>>,
      meta_single_page |-> Some([original_image_url |-> "p-o"]),
      image_urls |-> [square_medium |-> "p-sq", medium |-> "p-m", large |-> "p-l"] ]

\* The same work seen later as a two-page manga with other counts
ItemManga(id) ==
    [ id |-> id, user |-> [id |-> 100], type |-> Some("manga"),
      title |-> Some("B"), page_count |-> 2,
      total_view |-> Some(3), total_bookmarks |-> Some(2),
      is_bookmarked |-> Some(FALSE),
      create_date |-> Some("2019-01-02T00:00:00+00:00"),
      caption |-> Some("c2"), tags |-> <<TagDog>>,
      meta_pages |-> <<[image_urls |-> Urls("p0")], [image_urls |-> Urls("p1")]>>,
      meta_single_page |-> None,
      image_urls |-> [square_medium |-> "q-sq", medium |-> "q-m", large |-> "q-l"] ]

\* An item that carries only the keys from_json requires
ItemPartial(id) ==
    [ id |-> id, user |-> [id |-> 100], type |-> None,
      title |-> None, page_count |-> 1,
      total_view |-> None, total_bookmarks |-> None,
      is_bookmarked |-> None, create_date |-> None,
      caption |-> None, tags |-> <<>>,
      meta_pages |-> <<>>, meta_single_page |-> None,
      image_urls |-> [square_medium |-> "", medium |-> "", large |-> ""] ]

\* An item nobody has bookmarked yet
ItemZero(id) ==
    [ItemPartial(id) EXCEPT !.title = Some("A"),
                            !.total_view = Some(4), !.total_bookmarks = Some(0)]

Items == UNION {{ItemFull(id), ItemManga(id), ItemPartial(id), ItemZero(id)} :
                id \in WorkIds}

UgoiraJsons == {None, Some([frames |-> <<40, 120>>, zip_url |-> "z1"])}

\* What "last" records of a call: its arguments, whether it repeated the
\* call before it (repeat), whether its tag list named a tag twice (twice),
\* whether it changed the text of a stored translation (overwrote), and the
\* list a read of Ugoira.delay returned (value)
NoCall == [op |-> "none", j |-> None, language |-> "", ugoira_json |-> None,
           repeat |-> FALSE, twice |-> FALSE, overwrote |-> FALSE,
           value |-> <<>>]

-----------------------------------------------------------------------------
(* Two writers: the Sessions, and what each holds *)

Sessions == {1, 2}

\* A Session between two calls, with an empty transaction: the rows it has
\* INSERTed and not committed (tags, works_local), the WorksLocal objects it
\* has added and not flushed (pending), the call it is in (pc, name,
\* works_id), and what its last from_tags_json call got (got)
Idle == [ pc |-> "idle", name |-> "", omitted |-> FALSE, works_id |-> 0,
          tags |-> <<>>, works_local |-> <<>>, pending |-> <<>>,
          got |-> [t |-> None, cached |-> FALSE, omitted |-> FALSE] ]

-----------------------------------------------------------------------------
(* Downloads: the jobs and the worker threads of the PixivDownloader *)

JobIds == 1..MaxJobs

Workers == {1, 2}

\* A worker thread that waits for a job
IdleWorker == [pc |-> "get", job |-> 0, tries |-> 0]

-----------------------------------------------------------------------------
(* The web server: the Session context of DatabaseHelper.get_session and    *)
(* the websocket handlers of App                                            *)

\* The entity modifications a caller may make through the Session
Edits == 1..MaxEdits

\* No get_session context is open.  Inside one, the Session holds its
\* settings (autoflush, and whether flush and commit are no_write), the
\* modified entities it has not flushed (dirty), the rows it has written
\* and not committed (txn), what the caller has called in the body (called),
\* how the body ended (exit) and the calls the exit has made (log).
NoSession == [ pc |-> "outside", readonly |-> FALSE, autoflush |-> TRUE,
               no_write |-> FALSE, dirty |-> {}, txn |-> {},
               called |-> {}, exit |-> "", log |-> <<>> ]

\* The requests that open a websocket
Clients == 1..MaxClients

\* A websocket_handler call that has not started; "ended" tells how a call
\* that is over ended
NoHandler == [pc |-> "new", ended |-> ""]

-----------------------------------------------------------------------------
(* The ingestion path: one Session, one tags cache *)

Init ==
    /\ session = EmptySession
    /\ tags_cache = <<>>
    /\ clock = 0
    /\ last = NoCall
    /\ first_calls = <<>>
    /\ db = [tags |-> <<>>, works_local |-> <<>>]
    /\ writers = [s \in Sessions |-> Idle]
    /\ caches = [default |-> <<>>, run |-> [s \in Sessions |-> <<>>]]
    /\ dq = [items |-> <<>>, unfinished |-> 0]
    /\ unfinished_tasks = 0
    /\ jobs = [job \in JobIds |-> "none"]
    /\ threads = [main |-> "all_works", early |-> FALSE,
                  workers |-> [w \in Workers |-> IdleWorker]]
    /\ store = {}
    /\ helper = NoSession
    /\ ws_clients = <<>>
    /\ handlers = [h \in Clients |-> NoHandler]

\* One call of Works.from_json by the walker
Ingest ==
    \E j \in Items, language \in {RunLanguage}, ugoira_json \in UgoiraJsons :
        LET out == Works_from_json(session, j, language, ugoira_json,
                                   tags_cache, clock)
            call == [op |-> "from_json", j |-> Some(j), language |-> language,
                     ugoira_json |-> ugoira_json,
                     repeat |-> FALSE, twice |-> FALSE, overwrote |-> FALSE,
                     value |-> <<>>]
        IN /\ session' = out.st
           /\ tags_cache' = out.cache
           /\ last' = [call EXCEPT !.repeat =
                          /\ last.op \in {"from_json", "commit"}
                          /\ last.j = Some(j)
                          /\ last.language = language
                          /\ last.ugoira_json = ugoira_json]
           /\ UNCHANGED <<clock, first_calls, race_vars, drain_vars, web_vars>>

\* session.commit(): the pending rows are flushed and the transaction ends.
\* "last" keeps the arguments of the call before the commit.
Commit ==
    /\ session' = Autoflush(session, clock)
    /\ last' = [last EXCEPT !.op = "commit", !.repeat = FALSE,
                            !.twice = FALSE, !.overwrote = FALSE,
                            !.value = <<>>]
    /\ UNCHANGED <<tags_cache, clock, first_calls, race_vars, drain_vars, web_vars>>

\* A later traversal run on the same database starts with an empty cache
NewRun ==
    /\ tags_cache # <<>>
    /\ tags_cache' = <<>>
    /\ last' = [NoCall EXCEPT !.op = "new_run"]
    /\ UNCHANGED <<session, clock, first_calls, race_vars, drain_vars, web_vars>>

Next == Ingest \/ Commit \/ NewRun

Spec == Init /\ [][Next]_vars

-----------------------------------------------------------------------------
(* Properties of the ingestion path *)

\* Whether two rows of a table share their key
Duplicated(rows, Key(_)) ==
    \E i, k \in Indices(rows) : i < k /\ Key(rows[i]) = Key(rows[k])

NoDuplicateRows(st) ==
    LET ByWork(row) == row.works_id
        ByText(row) == row.tag_text
        ByTagLanguage(row) == <<row.tag_id, row.language>>
        ByWorkTag(row) == <<row.works_id, row.tag_id>>
        ByWorkPage(row) == <<row.works_id, row.page>>
    IN /\ ~Duplicated(st.works, ByWork)
       /\ ~Duplicated(st.tags, ByText)
       /\ ~Duplicated(st.tags_translation, ByTagLanguage)
       /\ ~Duplicated(st.works_tags, ByWorkTag)
       /\ ~Duplicated(st.works_image_urls, ByWorkPage)
       /\ ~Duplicated(st.works_captions, ByWork)
       /\ ~Duplicated(st.ugoiras, ByWork)

\* C1: a call of Works.from_json that repeats the call before it with the
\* same arguments, directly or with a commit in between, leaves in every
\* table the rows and the field values that the first call left; and no
\* table ever holds two rows with one key.
C1_Idempotent ==
    /\ [](NoDuplicateRows(Autoflush(session, clock)))
    /\ [][last'.repeat =>
             Autoflush(session', clock') = Autoflush(session, clock)]_vars

\* C1's case: an item with tags, a caption, an image and an ugoira has just
\* been ingested for the second time in a row
C1_Witness ==
    /\ last.op = "from_json"
    /\ last.repeat
    /\ last.j[1].tags # <<>>
    /\ last.ugoira_json # None
    /\ Len(session.works) = 1
    /\ Len(session.ugoiras) = 1

\* The entries of kv that are None when the item lacks them
OptionalFields == {"title", "works_type", "page_count", "total_views",
                   "total_bookmarks", "is_bookmarked", "bookmark_rate",
                   "create_date"}

\* C5: when Works.from_json is applied to a work that exists, every field
\* whose incoming value is None keeps the value it had before the call.
C5_AbsentFieldsKept ==
    [][(last'.op = "from_json" /\ QueryWorks(session, last'.j[1].id) # None) =>
          LET kv == KV(last'.j[1])
              before == QueryWorks(session, kv.works_id)[1]
              after == QueryWorks(session', kv.works_id)[1]
          IN \A k \in OptionalFields : kv[k] = None => after[k] = before[k]]_vars

\* C9: the stored bookmark_rate of the item just ingested is
\* total_bookmarks / total_view rounded to 5 places whenever both counts
\* are present, and None exactly when one of them is missing.
C9_RateWheneverPresent ==
    last.op = "from_json" =>
        LET j == last.j[1]
            row == QueryWorks(session, j.id)[1]
            present == j.total_bookmarks # None /\ j.total_view # None
        IN /\ (present /\ j.total_view[1] # 0) =>
                 row.bookmark_rate =
                     Some(Round5(j.total_bookmarks[1], j.total_view[1]))
           /\ (row.bookmark_rate = None) <=> ~present

\* The image URL rows that an item asks for: page 0 from the single-page
\* block, or one page per entry of the multi-page block
PagesOf(j) ==
    IF j.page_count > 1 /\ j.meta_pages # <<>>
    THEN [p \in 1..Len(j.meta_pages) |->
            [works_id |-> j.id, page |-> p - 1,
             square_medium |-> j.meta_pages[p].image_urls.square_medium,
             medium |-> j.meta_pages[p].image_urls.medium,
             large |-> j.meta_pages[p].image_urls.large,
             original |-> j.meta_pages[p].image_urls.original]]
    ELSE <<[works_id |-> j.id, page |-> 0,
            square_medium |-> j.image_urls.square_medium,
            medium |-> j.image_urls.medium,
            large |-> j.image_urls.large,
            original |-> j.meta_single_page[1].original_image_url]>>

\* Whether the item carries the block its page count points to
HasImageBlock(j) ==
    \/ j.page_count > 1 /\ j.meta_pages # <<>>
    \/ j.page_count = 1 /\ j.meta_single_page # None

\* C11: after Works.from_json has ingested an item, the image URL rows of
\* the work are exactly one row with page 0 when page_count is 1 (with the
\* urls of the single-page block when the item has one), and exactly the
\* pages 0..n-1 of the n entries of the multi-page block when the item is
\* multi-page, each once and with the urls of the item; and no two rows of
\* the table share (works_id, page), whatever the page counts of the items
\* ingested before.
C11_ImageRowsPerPage ==
    LET ByWorkPage(row) == <<row.works_id, row.page>>
    IN /\ ~Duplicated(session.works_image_urls, ByWorkPage)
       /\ last.op = "from_json" =>
             LET j == last.j[1]
                 rows == OfWork(session.works_image_urls, j.id)
             IN /\ j.page_count = 1 =>
                      /\ Len(rows) = 1
                      /\ rows[1].page = 0
                /\ HasImageBlock(j) =>
                      /\ Len(rows) = Len(PagesOf(j))
                      /\ \A p \in Indices(PagesOf(j)) :
                            \E i \in Indices(rows) : rows[i] = PagesOf(j)[p]

-----------------------------------------------------------------------------
(* Re-ingestion of works that have been downloaded, as time passes *)

ReingestItems ==
    UNION {{ItemFull(id), ItemManga(id), ItemPartial(id)} : id \in WorkIds}

\* One call of Works.from_json, without ugoira metadata
Reingest ==
    \E j \in ReingestItems :
        LET out == Works_from_json(session, j, RunLanguage, None,
                                   tags_cache, clock)
        IN /\ session' = out.st
           /\ tags_cache' = out.cache
           /\ last' = [NoCall EXCEPT !.op = "from_json", !.j = Some(j),
                                     !.language = RunLanguage]
           /\ UNCHANGED <<clock, first_calls, race_vars, drain_vars, web_vars>>

\* The download path: the files of a stored work are complete, and its
\* completion flag is set
MarkDownloaded ==
    \E i \in Indices(session.works) :
        /\ session.works[i].insert_date # None
        /\ session.works[i].is_downloaded # Some(TRUE)
        /\ session' = [session EXCEPT !.works[i].is_downloaded = Some(TRUE)]
        /\ last' = [NoCall EXCEPT !.op = "downloaded"]
        /\ UNCHANGED <<tags_cache, clock, first_calls, race_vars, drain_vars, web_vars>>

\* Time passes between two calls
Tick ==
    /\ clock < MaxClock
    /\ clock' = clock + 1
    /\ last' = [NoCall EXCEPT !.op = "tick"]
    /\ UNCHANGED <<session, tags_cache, first_calls, race_vars, drain_vars, web_vars>>

NextReingest == Reingest \/ Commit \/ MarkDownloaded \/ Tick

SpecReingest == Init /\ [][NextReingest]_vars

\* C13: a call of Works.from_json for a work that exists leaves the work's
\* is_downloaded flag and its insert_date as they were (the insert_date of
\* a row that is still pending is the one its INSERT gives it), for every
\* incoming item.
C13_DownloadStateKept ==
    [][(last'.op = "from_json" /\ QueryWorks(session, last'.j[1].id) # None) =>
          LET works_id == last'.j[1].id
              before == QueryWorks(Autoflush(session, clock), works_id)[1]
              after == QueryWorks(Autoflush(session', clock'), works_id)[1]
          IN /\ after.is_downloaded = before.is_downloaded
             /\ after.insert_date = before.insert_date]_vars

\* C13's case: a work first seen at time 0 and downloaded since has just
\* been ingested again at a later time
C13_Witness ==
    /\ last.op = "from_json"
    /\ clock > 0
    /\ LET w == QueryWorks(session, last.j[1].id)[1]
       IN /\ w.is_downloaded = Some(TRUE)
          /\ w.insert_date = Some(0)

-----------------------------------------------------------------------------
(* Tag resolution on its own: Tag.from_tags_json over every short tag list *)

TagEntries ==
    [name : {"cat"}, translated_name : {None, Some("neko"), Some("chat")}]
    \cup [name : {"dog"}, translated_name : {None, Some("inu")}]

TagLists == UNION {[1..n -> TagEntries] : n \in 1..MaxTagList}

\* Whether a call changed the text of a translation row that existed
Overwrote(before, after) ==
    \E i \in Indices(before.tags_translation) :
        \E k \in Indices(after.tags_translation) :
            /\ after.tags_translation[k].tag_id = before.tags_translation[i].tag_id
            /\ after.tags_translation[k].language = before.tags_translation[i].language
            /\ after.tags_translation[k].translation_text
                 # before.tags_translation[i].translation_text

\* One call of Tag.from_tags_json
ResolveTags ==
    \E tags \in TagLists, language \in Languages :
        LET out == Tag_from_tags_json(session, tags, language, tags_cache, clock)
        IN /\ session' = out.st
           /\ tags_cache' = out.cache
           /\ last' = [NoCall EXCEPT !.op = "from_tags_json",
                                     !.language = language,
                                     !.twice = Len(out.r) < Len(tags),
                                     !.overwrote = Overwrote(session, out.st)]
           /\ UNCHANGED <<clock, first_calls, race_vars, drain_vars, web_vars>>

NextTags == ResolveTags \/ NewRun

SpecTags == Init /\ [][NextTags]_vars

\* The names of a tag list, and the first entry of a name in it
NamesOf(tags) == {tags[i].name : i \in Indices(tags)}

FirstEntry(tags, name) ==
    tags[CHOOSE i \in Indices(tags) :
            /\ tags[i].name = name
            /\ \A k \in 1..(i - 1) : tags[k].name # name]

TagTexts(st) == {st.tags[i].tag_text : i \in Indices(st.tags)}

NoDuplicateTagRows(st) ==
    \A i, k \in Indices(st.tags) :
        (st.tags[i].tag_text = st.tags[k].tag_text
            \/ st.tags[i].tag_id = st.tags[k].tag_id) => i = k

\* The tag_id of the row of a name
TagIdOf(st, name) ==
    st.tags[CHOOSE i \in Indices(st.tags) : st.tags[i].tag_text = name].tag_id

\* C2: the store holds one Tag row per name; a call of Tag.from_tags_json
\* adds rows for exactly the names that had none, returns for every name of
\* its list the row of that name, whether the name is new, stored or cached,
\* and returns no row twice.
C2_OneRowPerName ==
    /\ NoDuplicateTagRows(session)
    /\ \A name \in DOMAIN tags_cache : tags_cache[name] = TagIdOf(session, name)
    /\ \A tags \in TagLists, language \in Languages :
          LET out == Tag_from_tags_json(session, tags, language, tags_cache, clock)
          IN /\ NoDuplicateTagRows(out.st)
             /\ TagTexts(out.st) = TagTexts(session) \cup NamesOf(tags)
             /\ \A i \in Indices(session.tags) : out.st.tags[i] = session.tags[i]
             /\ Len(out.r) = Cardinality(NamesOf(tags))
             /\ \A name \in NamesOf(tags) :
                   \E i \in Indices(out.r) : out.r[i] = TagIdOf(out.st, name)
             /\ \A i, k \in Indices(out.r) : out.r[i] = out.r[k] => i = k

\* C2's case: a list that names a tag twice has been resolved, after both
\* names were stored and a later run started with an empty cache
C2_Witness ==
    /\ last.op = "from_tags_json"
    /\ last.twice
    /\ Len(session.tags) = 2
    /\ DOMAIN tags_cache # TagTexts(session)

\* C3: a tag has at most one TagTranslation per language; a call of
\* Tag.from_tags_json overwrites the text of the translation of (tag,
\* language) when the tag's entry has a translated name and the translation
\* exists, appends exactly one row when it does not exist, and leaves the
\* translations of every other tag as they are.  The entry of a name that a
\* list repeats is its first one (the later ones are skipped).
C3_TranslationMerge ==
    /\ \A i, k \in Indices(session.tags_translation) :
          (/\ session.tags_translation[i].tag_id = session.tags_translation[k].tag_id
           /\ session.tags_translation[i].language
                = session.tags_translation[k].language) => i = k
    /\ \A tags \in TagLists, language \in Languages :
          LET out == Tag_from_tags_json(session, tags, language, tags_cache, clock)
          IN \A i \in Indices(out.st.tags) :
                LET tag == out.st.tags[i]
                    before == Translation(session, tag.tag_id)
                    after == Translation(out.st, tag.tag_id)
                    supplied == IF tag.tag_text \in NamesOf(tags)
                                THEN FirstEntry(tags, tag.tag_text).translated_name
                                ELSE None
                    existing == {x \in Indices(before) : before[x].language = language}
                IN IF supplied = None THEN after = before
                   ELSE IF existing # {}
                   THEN after = [x \in Indices(before) |->
                                    IF x \in existing
                                    THEN [before[x] EXCEPT
                                            !.translation_text = supplied[1]]
                                    ELSE before[x]]
                   ELSE after = Append(before,
                                       [tag_id |-> tag.tag_id, language |-> language,
                                        translation_text |-> supplied[1]])

\* C3's case: the last call changed the text of a stored translation of a
\* tag that is translated into both languages
C3_Witness ==
    /\ last.op = "from_tags_json"
    /\ last.overwrote
    /\ \E i, k \in Indices(session.tags_translation) :
          /\ session.tags_translation[i].tag_id = session.tags_translation[k].tag_id
          /\ session.tags_translation[i].language = "en"
          /\ session.tags_translation[k].language = "ja"

\* C12: every TagTranslation row carries the generated tag_id of a Tag row
\* that has been INSERTed: Tag.from_tags_json flushes a tag it creates
\* before it builds a translation for it, and a tag from the cache or from
\* the store has its tag_id already.
C12_FlushBeforeTranslation ==
    \A i \in Indices(session.tags_translation) :
        /\ session.tags_translation[i].tag_id # None
        /\ \E k \in Indices(session.tags) :
              session.tags[k].tag_id = session.tags_translation[i].tag_id

\* C12's case: translations have been built for both tags, and a second
\* one, in the other language, for a tag that was stored or cached by then
C12_Witness ==
    /\ last.op = "from_tags_json"
    /\ Len(session.tags) = 2
    /\ \A k \in Indices(session.tags) :
          Translation(session, session.tags[k].tag_id) # <<>>
    /\ \E k \in Indices(session.tags) :
          Len(Translation(session, session.tags[k].tag_id)) = 2

-----------------------------------------------------------------------------
(* The insertion-order index on its own *)

LocalWorkIds == 1..MaxLocalWorks

\* One call of WorksLocal.create_if_not_exist
CreateLocal ==
    \E works_id \in LocalWorkIds :
        /\ session' = WorksLocal_create_if_not_exist(session, works_id, clock)
        /\ first_calls' = IF \E i \in Indices(first_calls) : first_calls[i] = works_id
                          THEN first_calls
                          ELSE Append(first_calls, works_id)
        /\ last' = [NoCall EXCEPT !.op = "create_if_not_exist",
                                  !.j = Some(works_id),
                                  !.repeat = (first_calls' = first_calls)]
        /\ UNCHANGED <<tags_cache, clock, race_vars, drain_vars, web_vars>>

NextLocal == CreateLocal \/ Commit

SpecLocal == Init /\ [][NextLocal]_vars

\* The WorksLocal row of a work
LocalRow(st, works_id) == OfWork(st.works_local, works_id)[1]

\* There is exactly one WorksLocal row per works_id passed, and none else
ExactlyOneLocalRow ==
    /\ Len(session.works_local) = Len(first_calls)
    /\ \A i \in Indices(first_calls) :
          Len(OfWork(session.works_local, first_calls[i])) = 1

\* local_id follows the order of the first calls: of two works, the one
\* passed first has the smaller local_id, and gets it first
LocalIdsInCallOrder ==
    \A i, k \in Indices(first_calls) :
        i < k =>
            LET a == LocalRow(session, first_calls[i]).local_id
                b == LocalRow(session, first_calls[k]).local_id
            IN b # None => (a # None /\ a[1] < b[1])

\* A local_id that a row has is the one it keeps
LocalIdsKept ==
    \A i \in Indices(session.works_local) :
        session.works_local[i].local_id # None =>
            \E k \in Indices(session'.works_local) :
                session'.works_local[k] = session.works_local[i]

\* C4: after any sequence of WorksLocal.create_if_not_exist calls there is
\* exactly one WorksLocal row per works_id passed; the row made by the first
\* call keeps the local_id its INSERT gives it through every later call; and
\* the order of the local_ids is the order of the first calls, whatever the
\* order of the works_ids.
C4_InsertionOrder ==
    /\ [](ExactlyOneLocalRow /\ LocalIdsInCallOrder)
    /\ [][LocalIdsKept]_vars

\* C4's case: the works were passed in an order that is not that of their
\* ids, all rows are stored, and the last call named a work passed before
C4_Witness ==
    /\ last.op = "create_if_not_exist"
    /\ last.repeat
    /\ Len(first_calls) = MaxLocalWorks
    /\ first_calls[1] > first_calls[2]
    /\ \A i \in Indices(session.works_local) :
          session.works_local[i].local_id = Some(i)

-----------------------------------------------------------------------------
(* Animation frames: Ugoira.from_json through Works.from_json, and reads of *)
(* Ugoira.delay                                                             *)

Delays == {0, 7, 120}

DelayLists == UNION {[1..n -> Delays] : n \in 0..MaxFrames}

ItemUgoira == [ItemPartial(1) EXCEPT !.type = Some("ugoira")]

\* The work is ingested with its ugoira metadata
IngestUgoira ==
    \E frames \in DelayLists :
        LET ugoira_json == Some([frames |-> frames, zip_url |-> "z1"])
            before == OfWork(session.ugoiras, 1)
            out == Works_from_json(session, ItemUgoira, RunLanguage, ugoira_json,
                                   tags_cache, clock)
        IN /\ session' = out.st
           /\ tags_cache' = out.cache
           /\ last' = [NoCall EXCEPT
                          !.op = "from_json",
                          !.ugoira_json = ugoira_json,
                          \* an Ugoira that had memoized another list is updated
                          !.repeat = /\ before # <<>>
                                     /\ before[1]._delay # <<>>
                                     /\ before[1]._delay # frames]
           /\ UNCHANGED <<clock, first_calls, race_vars, drain_vars, web_vars>>

\* A read of the property delay of the stored Ugoira
ReadDelay ==
    /\ session.ugoiras # <<>>
    /\ LET read == Ugoira_delay(session.ugoiras[1])
       IN /\ session' = [session EXCEPT !.ugoiras[1] = read.ug]
          /\ last' = [last EXCEPT !.op = "delay", !.value = read.value]
    /\ UNCHANGED <<tags_cache, clock, first_calls, race_vars, drain_vars, web_vars>>

\* The Ugoira instance is dropped and loaded again from its row: the new
\* instance has the columns, and the class attribute _delay = []
Reload ==
    /\ session.ugoiras # <<>>
    /\ session.ugoiras[1]._delay # <<>>
    /\ session' = [Autoflush(session, clock) EXCEPT !.ugoiras[1]._delay = <<>>]
    /\ last' = [last EXCEPT !.op = "reload"]
    /\ UNCHANGED <<tags_cache, clock, first_calls, race_vars, drain_vars, web_vars>>

NextUgoira == IngestUgoira \/ ReadDelay \/ Reload

SpecUgoira == Init /\ [][NextUgoira]_vars

\* C10: Ugoira.delay returns the list of frame delays last given to
\* Ugoira.from_json, in its order: on every read, and for every list that
\* might be given next, on the object from_json built or updated and on an
\* object loaded from the stored delay_text alone.
C10_DelayRoundTrip ==
    /\ last.op = "delay" => last.value = last.ugoira_json[1].frames
    /\ \A frames \in DelayLists :
          LET out == Works_from_json(session, ItemUgoira, RunLanguage,
                                     Some([frames |-> frames, zip_url |-> "z1"]),
                                     tags_cache, clock)
              ug == OfWork(out.st.ugoiras, 1)[1]
              loaded == [ug EXCEPT !._delay = <<>>]
          IN /\ Ugoira_delay(ug).value = frames
             /\ Ugoira_delay(loaded).value = frames
             /\ DecodeDelay(ug.delay_text) = frames

\* C10's case: an Ugoira that had memoized one list was updated with another
\* list of two frames, and delay has been read since
C10_Witness ==
    /\ last.op = "delay"
    /\ last.repeat
    /\ Len(last.value) = 2
    /\ last.value[1] # last.value[2]

-----------------------------------------------------------------------------
(* Two writers on one database.  Each Session sees the committed rows and   *)
(* its own; the unique keys (Tag.tag_text, WorksLocal.works_id) are checked *)
(* by the database when a row is INSERTed: against a committed row the      *)
(* INSERT fails (IntegrityError), against a row another transaction has     *)
(* INSERTed and not committed it waits for that transaction to end.         *)

RaceNames == {"cat"}

RaceWorkIds == {1}

Other(s) == CHOOSE o \in Sessions : o # s

Has(rows, Key(_), key) == \E i \in Indices(rows) : Key(rows[i]) = key

TagText(row) == row.tag_text

WorksId(row) == row.works_id

\* The default value of the parameter tags_cache of Works.from_json is one
\* dict, made when the function is defined: every call that omits the
\* argument gets that same dict.
CacheOf(s, omitted) == IF omitted THEN caches.default ELSE caches.run[s]

WithCache(s, omitted, name, t) ==
    IF omitted
    THEN [caches EXCEPT !.default = CachePut(@, name, t)]
    ELSE [caches EXCEPT !.run[s] = CachePut(@, name, t)]

\* What the INSERT of a row with a unique key does in Session s
InsertStatus(s, committed, foreign, key, Key(_)) ==
    IF Has(committed, Key, key) THEN "error"
    ELSE IF Has(foreign, Key, key) THEN "wait"
    ELSE "ok"

\* The flush of the WorksLocal objects that Session s has added
FlushStatus(s) ==
    IF \E i \in Indices(writers[s].pending) :
          InsertStatus(s, db.works_local, writers[Other(s)].works_local,
                       writers[s].pending[i], WorksId) = "error"
    THEN "error"
    ELSE IF \E i \in Indices(writers[s].pending) :
          InsertStatus(s, db.works_local, writers[Other(s)].works_local,
                       writers[s].pending[i], WorksId) = "wait"
    THEN "wait"
    ELSE "ok"

AllLocalIds ==
    LET rows == db.works_local \o writers[1].works_local \o writers[2].works_local
    IN [i \in Indices(rows) |-> rows[i].local_id[1]]

AllTagIds ==
    LET rows == db.tags \o writers[1].tags \o writers[2].tags
    IN [i \in Indices(rows) |-> rows[i].tag_id[1]]

\* Session s after a flush that succeeds
Flushed(s) ==
    [writers[s] EXCEPT
        !.works_local = @ \o [i \in Indices(writers[s].pending) |->
                                 [local_id |-> Some(NextId(AllLocalIds) + i - 1),
                                  works_id |-> writers[s].pending[i]]],
        !.pending = <<>>]

\* Tag.from_tags_json for one entry of a tag list that has no
\* translated_name, up to the read of the cache: t = cache.get(t_name).
\* On a hit the call goes on to cache[t_name] = t and r.append(t) without
\* waiting for the database; on a miss it goes to its query.
LookupTag(s) ==
    /\ writers[s].pc = "idle"
    /\ \E name \in RaceNames, omitted \in BOOLEAN :
          LET hit == CacheGet(CacheOf(s, omitted), name)
          IN IF hit # None
             THEN /\ writers' = [writers EXCEPT ![s].got =
                                    [t |-> hit, cached |-> TRUE, omitted |-> omitted]]
                  /\ caches' = WithCache(s, omitted, name, hit[1])
             ELSE /\ writers' = [writers EXCEPT ![s].pc = "select",
                                                ![s].name = name,
                                                ![s].omitted = omitted]
                  /\ UNCHANGED caches
    /\ UNCHANGED <<db, ingest_vars, drain_vars, web_vars>>

\* The autoflush of a query, or the flush of a commit, in a Session that
\* holds added objects: the INSERT statements are sent and answered before
\* the statement of the query or the COMMIT is sent, and the other Session
\* runs in between
FlushRace(s) ==
    /\ writers[s].pc \in {"select", "local", "commit"}
    /\ writers[s].pending # <<>>
    /\ FlushStatus(s) # "wait"
    /\ IF FlushStatus(s) = "error"
       THEN writers' = [writers EXCEPT ![s].pc = "error"]
       ELSE writers' = [writers EXCEPT ![s] = Flushed(s)]
    /\ UNCHANGED <<db, caches, ingest_vars, drain_vars, web_vars>>

\* ... or session.query(cls).filter(cls.tag_text == t_name).one_or_none():
\* the SELECT, answered by the database some time after the cache was read
\* and after the autoflush; a row that is found becomes a Tag object of this
\* Session, which is put in the cache (cache[t_name] = t) over whatever the
\* cache holds by then
SelectTag(s) ==
    /\ writers[s].pc = "select"
    /\ writers[s].pending = <<>>
    /\ LET name == writers[s].name
           omitted == writers[s].omitted
           seen == db.tags \o writers[s].tags
           Named(row) == row.tag_text = name
           found == OneOrNone(Filter(seen, Named))
       IN IF found # None
          THEN LET t == [owner |-> s, tag_id |-> found[1].tag_id]
               IN /\ writers' = [writers EXCEPT
                        ![s].pc = "idle",
                        ![s].got = [t |-> Some(t), cached |-> FALSE,
                                    omitted |-> omitted]]
                  /\ caches' = WithCache(s, omitted, name, t)
          ELSE /\ writers' = [writers EXCEPT ![s].pc = "insert"]
               /\ UNCHANGED caches
    /\ UNCHANGED <<db, ingest_vars, drain_vars, web_vars>>

\* t = cls(tag_text=t_name); session.add(t); session.flush(), then
\* cache[t_name] = t and r.append(t)
InsertTag(s) ==
    /\ writers[s].pc = "insert"
    /\ LET name == writers[s].name
           status == InsertStatus(s, db.tags, writers[Other(s)].tags, name, TagText)
           t == [owner |-> s, tag_id |-> Some(NextId(AllTagIds))]
       IN /\ status # "wait"
          /\ IF status = "error"
             THEN /\ writers' = [writers EXCEPT ![s].pc = "error"]
                  /\ UNCHANGED <<db, caches>>
             ELSE /\ writers' = [writers EXCEPT
                        ![s].pc = "idle",
                        ![s].tags = Append(@, [tag_id |-> t.tag_id, tag_text |-> name]),
                        ![s].got = [t |-> Some(t), cached |-> FALSE,
                                    omitted |-> writers[s].omitted]]
                  /\ caches' = WithCache(s, writers[s].omitted, name, t)
                  /\ UNCHANGED db
    /\ UNCHANGED <<ingest_vars, drain_vars, web_vars>>

\* WorksLocal.create_if_not_exist in Session s: the query, which waits for
\* the autoflush first when the Session holds added objects, and the add of
\* a new object when the SELECT finds no row
CreateLocalRace(s) ==
    /\ writers[s].pc \in {"idle", "local"}
    /\ \E works_id \in RaceWorkIds :
          /\ writers[s].pc = "local" => works_id = writers[s].works_id
          /\ IF writers[s].pending # <<>>
             THEN /\ writers[s].pc = "idle"
                  /\ writers' = [writers EXCEPT ![s].pc = "local",
                                                ![s].works_id = works_id]
             ELSE LET seen == db.works_local \o writers[s].works_local
                  IN writers' = [writers EXCEPT
                        ![s].pc = "idle",
                        ![s].works_id = 0,
                        ![s].pending = IF Has(seen, WorksId, works_id)
                                       THEN <<>> ELSE <<works_id>>]
    /\ UNCHANGED <<db, caches, ingest_vars, drain_vars, web_vars>>

\* session.commit() in Session s: the flush, which is waited for when the
\* Session holds added objects, then the COMMIT of the transaction's rows
CommitRace(s) ==
    /\ writers[s].pc \in {"idle", "commit"}
    /\ writers[s].pc = "idle" =>
          writers[s].tags \o writers[s].works_local \o writers[s].pending # <<>>
    /\ IF writers[s].pending # <<>>
       THEN /\ writers[s].pc = "idle"
            /\ writers' = [writers EXCEPT ![s].pc = "commit"]
            /\ UNCHANGED db
       ELSE /\ db' = [tags |-> db.tags \o writers[s].tags,
                      works_local |-> db.works_local \o writers[s].works_local]
            /\ writers' = [writers EXCEPT ![s].pc = "idle",
                                          ![s].tags = <<>>,
                                          ![s].works_local = <<>>]
    /\ UNCHANGED <<caches, ingest_vars, drain_vars, web_vars>>

\* session.rollback() after the exception: the transaction's rows are gone
RollbackRace(s) ==
    /\ writers[s].pc = "error"
    /\ writers' = [writers EXCEPT ![s].pc = "idle",
                                  ![s].works_id = 0,
                                  ![s].tags = <<>>,
                                  ![s].works_local = <<>>,
                                  ![s].pending = <<>>]
    /\ UNCHANGED <<db, caches, ingest_vars, drain_vars, web_vars>>

NextRace ==
    \E s \in Sessions :
        \/ LookupTag(s)
        \/ FlushRace(s)
        \/ SelectTag(s)
        \/ InsertTag(s)
        \/ CreateLocalRace(s)
        \/ CommitRace(s)
        \/ RollbackRace(s)

SpecRace == Init /\ [][NextRace]_vars

\* C6: a call that omitted tags_cache is never handed, from the cache, a
\* Tag that another Session's run resolved.
C6_CacheScopedToRun ==
    \A s \in Sessions :
        (writers[s].got.cached /\ writers[s].got.omitted) =>
            writers[s].got.t[1].owner = s

\* C8: no writer ends in an error, and the committed tables hold at most
\* one row per tag text and per works_id.
C8_RaceIsBenign ==
    /\ \A s \in Sessions : writers[s].pc # "error"
    /\ ~Duplicated(db.tags, TagText)
    /\ ~Duplicated(db.works_local, WorksId)

-----------------------------------------------------------------------------
(* The command line's wait for the downloads (cli.py, main).  main calls    *)
(* all_works, which submits the download jobs, and then waits: first for    *)
(* the counter pdl.unfinished_tasks to be zero, then in pdl.dq.join().  The *)
(* worker threads take the jobs from the queue while main runs.             *)

\* Queue.put(job): the job is queued and is one more unfinished task
Put(q, job) == [items |-> Append(q.items, job), unfinished |-> q.unfinished + 1]

\* Queue.task_done(): one unfinished task less
TaskDone(q) == [q EXCEPT !.unfinished = @ - 1]

\* Whether `while pdl.unfinished_tasks:` leaves its loop
PollReturns == unfinished_tasks = 0

\* Whether pdl.dq.join() returns: every item that was put has been taken
\* and reported with task_done
JoinReturnsMutant == TRUE

JoinReturns == dq.unfinished = 0

\* all_works submits one more download job
Submit ==
    /\ threads.main = "all_works"
    /\ \E job \in JobIds :
          /\ jobs[job] = "none"
          /\ \A earlier \in 1..(job - 1) : jobs[earlier] # "none"
          /\ dq' = Put(dq, job)
          /\ jobs' = [jobs EXCEPT ![job] = "queued"]
    /\ UNCHANGED <<unfinished_tasks, threads, ingest_vars, race_vars, web_vars>>

\* pdl.all_works(...) returns: every job has been submitted
AllWorksReturns ==
    /\ threads.main = "all_works"
    /\ threads' = [threads EXCEPT !.main = "poll"]
    /\ UNCHANGED <<dq, unfinished_tasks, jobs, ingest_vars, race_vars, web_vars>>

\* while pdl.unfinished_tasks: time.sleep(0.1) -- the loop ends on a read
\* of zero.  "early" records that a job was queued or held by a worker then.
MainPoll ==
    /\ threads.main = "poll"
    /\ PollReturns
    /\ threads' = [threads EXCEPT
                      !.main = "join",
                      !.early = \E job \in JobIds :
                                   jobs[job] \in {"queued", "in_flight"}]
    /\ UNCHANGED <<dq, unfinished_tasks, jobs, ingest_vars, race_vars, web_vars>>

\* pdl.dq.join(), then the log line 'Works download task done!'
MainJoin ==
    /\ threads.main = "join"
    /\ JoinReturns
    /\ threads' = [threads EXCEPT !.main = "done"]
    /\ UNCHANGED <<dq, unfinished_tasks, jobs, ingest_vars, race_vars, web_vars>>

\* A worker takes a job from the queue: it holds the job, and the job is
\* not counted as outstanding yet
WorkerGet(w) ==
    /\ threads.workers[w].pc = "get"
    /\ dq.items # <<>>
    /\ dq' = [dq EXCEPT !.items = Tail(@)]
    /\ jobs' = [jobs EXCEPT ![Head(dq.items)] = "in_flight"]
    /\ threads' = [threads EXCEPT !.workers[w] =
                      [pc |-> "count", job |-> Head(dq.items), tries |-> 0]]
    /\ UNCHANGED <<unfinished_tasks, ingest_vars, race_vars, web_vars>>

\* The worker counts its job as outstanding
WorkerCount(w) ==
    /\ threads.workers[w].pc = "count"
    /\ unfinished_tasks' = unfinished_tasks + 1
    /\ threads' = [threads EXCEPT !.workers[w].pc = "download"]
    /\ UNCHANGED <<dq, jobs, ingest_vars, race_vars, web_vars>>

\* One attempt to download: it succeeds, or it fails and is tried again
\* until the attempts are used up and the job has failed for good
WorkerAttempt(w) ==
    /\ threads.workers[w].pc = "download"
    /\ \E ok \in BOOLEAN :
          LET job == threads.workers[w].job
              tries == threads.workers[w].tries + 1
          IN IF ok
             THEN /\ jobs' = [jobs EXCEPT ![job] = "succeeded"]
                  /\ threads' = [threads EXCEPT !.workers[w].pc = "settle",
                                                !.workers[w].tries = tries]
             ELSE IF tries >= MaxTries
             THEN /\ jobs' = [jobs EXCEPT ![job] = "failed"]
                  /\ threads' = [threads EXCEPT !.workers[w].pc = "settle",
                                                !.workers[w].tries = tries]
             ELSE /\ jobs' = jobs
                  /\ threads' = [threads EXCEPT !.workers[w].tries = tries]
    /\ UNCHANGED <<dq, unfinished_tasks, ingest_vars, race_vars, web_vars>>

\* The job is terminal: it is outstanding no longer
WorkerSettle(w) ==
    /\ threads.workers[w].pc = "settle"
    /\ unfinished_tasks' = unfinished_tasks - 1
    /\ threads' = [threads EXCEPT !.workers[w].pc = "task_done"]
    /\ UNCHANGED <<dq, jobs, ingest_vars, race_vars, web_vars>>

\* self.dq.task_done(), and the worker waits for its next job
WorkerTaskDone(w) ==
    /\ threads.workers[w].pc = "task_done"
    /\ dq' = TaskDone(dq)
    /\ threads' = [threads EXCEPT !.workers[w] = IdleWorker]
    /\ UNCHANGED <<unfinished_tasks, jobs, ingest_vars, race_vars, web_vars>>

NextDrain ==
    \/ Submit
    \/ AllWorksReturns
    \/ MainPoll
    \/ MainJoin
    \/ \E w \in Workers :
          \/ WorkerGet(w)
          \/ WorkerCount(w)
          \/ WorkerAttempt(w)
          \/ WorkerSettle(w)
          \/ WorkerTaskDone(w)

SpecDrain == Init /\ [][NextDrain]_vars

\* C7: when main is at 'Works download task done', every job that all_works
\* submitted is terminal (succeeded or failed for good), the counter of
\* outstanding jobs is zero, the queue is empty and joined, and no worker
\* holds a job -- also when main read the counter as zero while a job was
\* queued, or taken from the queue and not counted yet.
C7_DrainBeforeDone ==
    threads.main = "done" =>
        /\ \A job \in JobIds : jobs[job] \in {"none", "succeeded", "failed"}
        /\ unfinished_tasks = 0
        /\ dq = [items |-> <<>>, unfinished |-> 0]
        /\ \A w \in Workers : threads.workers[w] = IdleWorker

\* C7's case: main is done after it read the counter as zero while a job
\* was queued or in flight; every job was submitted, one succeeded and one
\* failed for good
C7_Witness ==
    /\ threads.main = "done"
    /\ threads.early
    /\ \A job \in JobIds : jobs[job] # "none"
    /\ \E job \in JobIds : jobs[job] = "succeeded"
    /\ \E job \in JobIds : jobs[job] = "failed"

-----------------------------------------------------------------------------
(* DatabaseHelper.get_session: the context manager and what a caller does   *)
(* with the Session inside it                                               *)

\* if readonly: s.flush = no_write; s.commit = no_write
PatchedMutant(readonly) == FALSE

Patched(readonly) == readonly

\* if readonly: s.autoflush = False
AutoflushOn(readonly) == ~readonly

\* s.flush(): the modified entities are written in the transaction, unless
\* flush is no_write
Flush(s) ==
    IF s.no_write THEN s
    ELSE [s EXCEPT !.txn = @ \cup s.dirty, !.dirty = {}]

\* What the exit of the context calls: except: s.rollback(); raise, and
\* finally: s.close()
ExitCalls(raised) ==
    (IF raised THEN <<"rollback", "raise">> ELSE <<>>) \o <<"close">>

\* with get_session(readonly) as session: the Session is made and yielded
EnterSession ==
    /\ helper.pc \in {"outside", "exited"}
    /\ \E readonly \in BOOLEAN :
          helper' = [NoSession EXCEPT !.pc = "body",
                                      !.readonly = readonly,
                                      !.autoflush = AutoflushOn(readonly),
                                      !.no_write = Patched(readonly)]
    /\ UNCHANGED <<store, ws_clients, handlers, ingest_vars, race_vars, drain_vars>>

\* The caller modifies an entity of the Session
Modify ==
    /\ helper.pc = "body"
    /\ \E e \in Edits \ (helper.dirty \cup helper.txn \cup store) :
          helper' = [helper EXCEPT !.dirty = @ \cup {e},
                                   !.called = @ \cup {"modify"}]
    /\ UNCHANGED <<store, ws_clients, handlers, ingest_vars, race_vars, drain_vars>>

\* The caller calls session.flush()
CallFlush ==
    /\ helper.pc = "body"
    /\ helper' = [Flush(helper) EXCEPT !.called = @ \cup {"flush"}]
    /\ UNCHANGED <<store, ws_clients, handlers, ingest_vars, race_vars, drain_vars>>

\* The caller runs a query (q.all): the Session flushes first when
\* autoflush is on
CallQuery ==
    /\ helper.pc = "body"
    /\ helper' = [(IF helper.autoflush THEN Flush(helper) ELSE helper)
                    EXCEPT !.called = @ \cup {"query"}]
    /\ UNCHANGED <<store, ws_clients, handlers, ingest_vars, race_vars, drain_vars>>

\* The caller calls session.commit(): flush, and the transaction's rows are
\* persisted, unless commit is no_write
CallCommit ==
    /\ helper.pc = "body"
    /\ IF helper.no_write
       THEN /\ helper' = [helper EXCEPT !.called = @ \cup {"commit"}]
            /\ store' = store
       ELSE /\ store' = store \cup Flush(helper).txn
            /\ helper' = [Flush(helper) EXCEPT !.txn = {},
                                               !.called = @ \cup {"commit"}]
    /\ UNCHANGED <<ws_clients, handlers, ingest_vars, race_vars, drain_vars>>

\* The body ends, normally or by an exception, and the context exits:
\* rollback and close drop what was not committed
ExitSession ==
    /\ helper.pc = "body"
    /\ \E raised \in BOOLEAN :
          helper' = [helper EXCEPT !.pc = "exited", !.dirty = {}, !.txn = {},
                                   !.exit = IF raised THEN "raise" ELSE "return",
                                   !.log = ExitCalls(raised)]
    /\ UNCHANGED <<store, ws_clients, handlers, ingest_vars, race_vars, drain_vars>>

NextSession ==
    \/ EnterSession
    \/ Modify
    \/ CallFlush
    \/ CallQuery
    \/ CallCommit
    \/ ExitSession

SpecSession == Init /\ [][NextSession]_vars

\* C14: inside get_session(readonly=True) nothing that the caller does --
\* modifying entities, flush, commit, queries -- writes a row or changes
\* the persisted store; and the context always ends with the Session
\* closed, after a rollback and the re-raise when the body raised.
C14_ReadonlySession ==
    /\ [](/\ helper.readonly => helper.txn = {}
          /\ helper.pc = "exited" =>
                /\ helper.log[Len(helper.log)] = "close"
                /\ helper.exit = "raise" =>
                      helper.log = <<"rollback", "raise", "close">>
                /\ helper.exit = "return" => helper.log = <<"close">>)
    /\ [][(helper.pc = "body" /\ helper.readonly) => store' = store]_vars

\* C14's case: a read-only context in which entities were modified and
\* flush and commit were called has ended by an exception, on a store that
\* holds rows
C14_Witness ==
    /\ helper.pc = "exited"
    /\ helper.readonly
    /\ helper.exit = "raise"
    /\ {"modify", "flush", "commit"} \subseteq helper.called
    /\ store # {}

-----------------------------------------------------------------------------
(* App.websocket_handler: one coroutine per client on one event loop; a     *)
(* step runs from one await to the next                                     *)

\* The positions of a handler between its append and its end
Running == {"greet", "loop", "query", "reply"}

\* What `async for msg in ws` can deliver: a TEXT message with a JSON
\* object asking tags_like with a text, one asking tags_like without a text,
\* another JSON object whose "query" is absent or an object, a JSON text
\* that is not an object or whose "query" is not an object, a TEXT message
\* that is not JSON, a message of another type, an ERROR message, and the
\* end of the iteration
Messages == {"tags_like", "tags_like_empty", "other_json", "not_object",
             "not_json", "binary", "error", "closed"}

\* list.remove(ws): the first occurrence is taken out
Remove(list, h) ==
    LET at == {i \in 1..Len(list) : list[i] = h}
        first == CHOOSE i \in at : \A k \in at : i <= k
    IN  [i \in 1..(Len(list) - 1) |-> IF i < first THEN list[i] ELSE list[i + 1]]

\* finally: self.ws_clients.remove(ws), and the handler ends
Finally(h, how) ==
    /\ ws_clients' = Remove(ws_clients, h)
    /\ handlers' = [handlers EXCEPT ![h] = [pc |-> "ended", ended |-> how]]

\* The handler ends by an exception raised outside the try statement
RaiseOutsideTry(h, how) ==
    /\ handlers' = [handlers EXCEPT ![h] = [pc |-> "ended", ended |-> how]]
    /\ UNCHANGED ws_clients

\* How the handler's first step, up to the await of the greeting, can go:
\* ws.prepare raises; or the socket is appended and the log line of the
\* connection raises (request.transport is None, or there is no peername);
\* or all of it succeeds
ConnectOutcomes == {"prepare_failed", "peername_failed", "connected"}

\* await ws.prepare(request); self.ws_clients.append(ws); peername =
\* request.transport.get_extra_info('peername'); self.logger.info(...)
Connect(h) ==
    /\ handlers[h].pc = "new"
    /\ \E outcome \in ConnectOutcomes :
          CASE outcome = "prepare_failed" -> RaiseOutsideTry(h, "prepare_failed")
            [] outcome = "peername_failed" ->
                  /\ ws_clients' = Append(ws_clients, h)
                  /\ handlers' = [handlers EXCEPT ![h] =
                                     [pc |-> "ended", ended |-> "peername_failed"]]
            [] outcome = "connected" ->
                  /\ ws_clients' = Append(ws_clients, h)
                  /\ handlers' = [handlers EXCEPT ![h].pc = "greet"]
    /\ UNCHANGED <<store, helper, ingest_vars, race_vars, drain_vars>>

\* await ws.send_json({'message': 'hi'}), before the try statement
Greet(h) ==
    /\ handlers[h].pc = "greet"
    /\ \E ok \in BOOLEAN :
          IF ok
          THEN /\ handlers' = [handlers EXCEPT ![h].pc = "loop"]
               /\ UNCHANGED ws_clients
          ELSE RaiseOutsideTry(h, "greeting_failed")
    /\ UNCHANGED <<store, helper, ingest_vars, race_vars, drain_vars>>

\* async for msg in ws: one message, up to the next await
Receive(h) ==
    /\ handlers[h].pc = "loop"
    /\ \E msg \in Messages :
          CASE msg = "tags_like" ->
                  /\ handlers' = [handlers EXCEPT ![h].pc = "query"]
                  /\ UNCHANGED ws_clients
            [] msg = "other_json" ->
                  /\ handlers' = [handlers EXCEPT ![h].pc = "reply"]
                  /\ UNCHANGED ws_clients
            [] msg \in {"tags_like_empty", "binary"} ->
                  UNCHANGED <<handlers, ws_clients>>
            [] msg = "not_object" -> Finally(h, "attribute_error")
            [] msg = "not_json" -> Finally(h, "bad_request")
            [] msg = "error" -> Finally(h, "connection_error")
            [] msg = "closed" -> Finally(h, "closed")
    /\ UNCHANGED <<store, helper, ingest_vars, race_vars, drain_vars>>

\* r = await self.query_db(q.all) inside `with self.db.get_session()`
QueryDb(h) ==
    /\ handlers[h].pc = "query"
    /\ \E ok \in BOOLEAN :
          IF ok
          THEN /\ handlers' = [handlers EXCEPT ![h].pc = "reply"]
               /\ UNCHANGED ws_clients
          ELSE Finally(h, "query_failed")
    /\ UNCHANGED <<store, helper, ingest_vars, race_vars, drain_vars>>

\* await ws.send_json(...) inside the loop
Reply(h) ==
    /\ handlers[h].pc = "reply"
    /\ \E ok \in BOOLEAN :
          IF ok
          THEN /\ handlers' = [handlers EXCEPT ![h].pc = "loop"]
               /\ UNCHANGED ws_clients
          ELSE Finally(h, "send_failed")
    /\ UNCHANGED <<store, helper, ingest_vars, race_vars, drain_vars>>

NextWeb ==
    \/ \E h \in Clients : Connect(h)
    \/ \E h \in Clients : Greet(h)
    \/ \E h \in Clients : Receive(h)
    \/ \E h \in Clients : QueryDb(h)
    \/ \E h \in Clients : Reply(h)

SpecWeb == Init /\ [][NextWeb]_vars

Registered(h) == \E i \in 1..Len(ws_clients) : ws_clients[i] = h

\* C15: under every interleaving of the handlers, App.ws_clients holds
\* exactly the sockets whose handler is still running: a socket a handler
\* appended is gone from the list once that handler has ended, however it
\* ended (normally, on a connection error, on malformed JSON, or on a
\* failure of the greeting send).
C15_RegistryExact ==
    \A h \in Clients : Registered(h) <=> handlers[h].pc \in Running

=============================================================================
